---- MODULE Spec2Model ----
(***************************************************************************)
(* SATA boot shim (shim/boot_dev/sata_boot_shim.c): the capacity pre-read, *)
(* the shim-target decision, the sd_probe() replacement, the scan of the   *)
(* devices that exist at registration, and register/unregister.            *)
(***************************************************************************)
EXTENDS Integers, Sequences, FiniteSets, TLC

VARIABLES
    drv_probe,          \* drv->probe of the "sd" driver: "sd_probe" or "sd_probe_shim"
    org_sd_probe,       \* static org_sd_probe: "NULL" or the saved probe
    max_dom_size_mib,   \* static max_dom_size_mib
    device_mapped,      \* global device_mapped
    vendor,             \* sdp->vendor of every device
    model,              \* sdp->model of every device
    onbus,              \* devices attached to the SCSI bus
    shimmed,            \* kernel log: devices of the "Shimming device ..." messages
    scan_log,           \* what the running probe_existing_devices() has done so far
    fr,                 \* one frame per running sd_probe_shim()/on_existing_device()
    reg,                \* the frame of register_/unregister_sata_boot_shim()
    qry                 \* a capacity pre-read taken alone: its inputs and its result

vars == <<drv_probe, org_sd_probe, max_dom_size_mib, device_mapped, vendor, model,
          onbus, shimmed, scan_log, fr, reg, qry>>

engine == <<drv_probe, org_sd_probe, max_dom_size_mib, device_mapped>>

-----------------------------------------------------------------------------
(* Bounds of the model *)

\* devices that can be plugged into the machine
NumDevs == 5
\* responses a device scripts for one capacity pre-read
MaxScript == 3

-----------------------------------------------------------------------------
(* Program constants *)

SCSI_CAP_MAX_RETRIES == 3
EFAULT == 14
EINVAL == 22
EIO == 5
EEXIST == 17
ENOENT == 2
ENODEV == 19
ILLEGAL_REQUEST == 5
UNIT_ATTENTION == 6
TYPE_DISK == 0

CONFIG_SYNO_SATA_DOM_VENDOR == "SATADOM-"
CONFIG_SYNO_SATA_DOM_MODEL == "TYPE D 3SE"
BOOT_MEDIA_SATA == "BOOT_MEDIA_SATA"
SYNO_PORT_TYPE_SATA == "SYNO_PORT_TYPE_SATA"

-----------------------------------------------------------------------------
(* The devices: what the bus layer and the drive firmware report *)

Devs == 1..NumDevs

\* the identity strings the INQUIRY of a freshly enumerated device yields
INQUIRY_VENDOR == "ATA"
INQUIRY_MODEL == "DISK"

\* struct scsi_device as is_sata_disk() and the capacity pre-read see it:
\* 1: SATA disk, 100 MiB and 1000 sectors;  2: SATA disk, 101 MiB;
\* 3: SAS disk;  4: SATA device that is no disk;  5: a bus entry that is no sdev
sdev(d) ==
    LET k == (d - 1) % 5 IN
    [ is_sdev     |-> k # 4,
      type        |-> IF k = 3 THEN 5 ELSE TYPE_DISK,
      port_type   |-> IF k = 2 THEN "SYNO_PORT_TYPE_SAS" ELSE SYNO_PORT_TYPE_SATA,
      lba         |-> IF k = 1 THEN 101 * 2048 - 1 ELSE 100 * 2048 + 999,
      sector_size |-> 512 ]

\* struct boot_media values handed to register_sata_boot_shim()
BootMedia == [type : {BOOT_MEDIA_SATA, "BOOT_MEDIA_USB"}, dom_size_mib : {100, 200}]

\* what sd_probe() can return
SdProbeRets == {0, -ENODEV}

-----------------------------------------------------------------------------
(* SCSI command results: the status of scsi_execute_req() and the sense header *)

RespOk      == [out |-> 0,  valid |-> FALSE, sense_key |-> 0, asc |-> 0, ascq |-> 0]
RespNoSense == [out |-> 1,  valid |-> FALSE, sense_key |-> 0, asc |-> 0, ascq |-> 0]
RespBadOp   == [out |-> 1,  valid |-> TRUE, sense_key |-> ILLEGAL_REQUEST, asc |-> 32, ascq |-> 0]
RespBadFld  == [out |-> 1,  valid |-> TRUE, sense_key |-> ILLEGAL_REQUEST, asc |-> 36, ascq |-> 0]
RespBusy    == [out |-> 1,  valid |-> TRUE, sense_key |-> UNIT_ATTENTION, asc |-> 41, ascq |-> 0]
RespOther   == [out |-> 1,  valid |-> TRUE, sense_key |-> 2, asc |-> 4, ascq |-> 1]
RespNeg     == [out |-> -1, valid |-> FALSE, sense_key |-> 0, asc |-> 0, ascq |-> 0]

Responses == {RespOk, RespNoSense, RespBadOp, RespBadFld, RespBusy, RespOther, RespNeg}

\* what a drive answers to READ CAPACITY(16), attempt by attempt; a drive asked
\* more often than its script is long repeats its last answer
Scripts == [1..MaxScript -> Responses]

\* what a drive answers to READ CAPACITY(10)
LegacyResponses == {RespOk, RespBadOp}

scsi_sense_valid(sshdr) == sshdr.valid

\* the bytes f[1], f[2], ... written out as a sequence
bytes(f) == SubSeq(f, 1, Len(f))

\* the w bytes, most significant first, of a number below 2^31
be_bytes(n, w) ==
    bytes([i \in 1..w |-> IF w - i >= 4 THEN 0 ELSE (n \div (256 ^ (w - i))) % 256])

ZeroBuffer == be_bytes(0, 12)

\* READ CAPACITY(16): status, sense, and on success the 12 bytes LBA(8) LEN(4)
scsi_read_cap16(sd, script, n) ==
    LET r == script[IF n <= Len(script) THEN n ELSE Len(script)] IN
    [ r |-> r,
      buffer |-> IF r.out = 0 THEN be_bytes(sd.lba, 8) \o be_bytes(sd.sector_size, 4)
                              ELSE ZeroBuffer ]

\* READ CAPACITY(10): on success the 8 bytes LBA(4) LEN(4); bytes 8..11 of the
\* buffer keep the zeroes the preceding READ CAPACITY(16) call wrote
scsi_read_cap10(sd, legacy) ==
    [ r |-> legacy,
      buffer |-> IF legacy.out = 0
                 THEN be_bytes(sd.lba, 4) \o be_bytes(sd.sector_size, 4) \o be_bytes(0, 4)
                 ELSE ZeroBuffer ]

\* Unsigned machine words are kept as their bytes, least significant first, and
\* the arithmetic of the code is done on them in the width of its C type.

\* get_unaligned_be64(&buffer[at]), get_unaligned_be32(&buffer[at]); at counts from 1
get_unaligned_be64(buffer, at) == bytes([i \in 1..8 |-> buffer[at + 8 - i]])
get_unaligned_be32(buffer, at) == bytes([i \in 1..4 |-> buffer[at + 4 - i]])

\* a + 1 in the width of a
u_add1(a) ==
    LET c[i \in 0..Len(a)] == IF i = 0 THEN 1 ELSE (a[i] + c[i - 1]) \div 256
    IN  bytes([i \in 1..Len(a) |-> (a[i] + c[i - 1]) % 256])

RECURSIVE u_column(_, _, _, _)
\* the sum of the byte products a[i] * b[k + 1 - i], for i from i0 on
u_column(a, b, k, i0) ==
    IF i0 > Len(a) \/ i0 > k
    THEN 0
    ELSE (IF k + 1 - i0 <= Len(b) THEN a[i0] * b[k + 1 - i0] ELSE 0)
         + u_column(a, b, k, i0 + 1)

\* a * b in a width of w bytes: what does not fit is cut off
u_mul(a, b, w) ==
    LET s[k \in 1..w] == u_column(a, b, k, 1) + (IF k = 1 THEN 0 ELSE s[k - 1] \div 256)
    IN  bytes([k \in 1..w |-> s[k] % 256])

\* a / 1024 / 1024 in the width of a
u_div_mib(a) ==
    LET at(i) == IF i <= Len(a) THEN a[i] ELSE 0
    IN  bytes([i \in 1..Len(a) |-> (at(i + 2) \div 16) + (at(i + 3) % 16) * 16])

\* the value as a number, for values below 2^31
u_int(a) ==
    LET v[i \in 0..Len(a)] == IF i = 0 THEN 0
                               ELSE v[i - 1] + (IF a[i] = 0 THEN 0 ELSE a[i] * (256 ^ (i - 1)))
    IN  v[Len(a)]

\* unsigned sector_size = get_unaligned_be32(&buffer[8]);
\* unsigned long long lba = get_unaligned_be64(&buffer[0]);
\* long long size_mb = ((lba+1) * sector_size) / 1024 / 1024: the eight bytes of it
size_mb_bytes(buffer) ==
    LET sector_size == get_unaligned_be32(buffer, 9)
        lba         == get_unaligned_be64(buffer, 1)
    IN  u_div_mib(u_mul(u_add1(lba), sector_size, 8))

\* size_mb as a number
size_mb(buffer) == u_int(size_mb_bytes(buffer))

\* hard_refusal that knows the invalid-opcode code only
hard_refusal_opcode_only(sshdr) ==
    sshdr.sense_key = ILLEGAL_REQUEST /\ sshdr.asc = 32 /\ sshdr.ascq = 0

\* the drive rejected the request for good: ILLEGAL REQUEST, asc 0x20 or 0x24, ascq 0
hard_refusal(sshdr) ==
    sshdr.sense_key = ILLEGAL_REQUEST /\ (sshdr.asc = 32 \/ sshdr.asc = 36) /\ sshdr.ascq = 0

\* the drive is busy: UNIT ATTENTION, asc 0x29, ascq 0
drive_busy(sshdr) ==
    sshdr.sense_key = UNIT_ATTENTION /\ sshdr.asc = 41 /\ sshdr.ascq = 0

RECURSIVE read_cap_loop(_, _, _, _, _, _, _)
\* the do { ... } while (--read_retry) loop and what follows it
read_cap_loop(sd, script, legacy, read_retry, use_cap16, cmds, delays) ==
    LET n     == Len(cmds) + 1
        x     == IF use_cap16 THEN scsi_read_cap16(sd, script, n)
                              ELSE scsi_read_cap10(sd, legacy)
        out   == x.r.out
        sshdr == x.r
        cmds2 == Append(cmds, IF use_cap16 THEN "READ_CAPACITY_16" ELSE "READ_CAPACITY_10")
        \* continue, or the end of the loop body: } while (--read_retry);
        again(uc, dl) ==
            IF read_retry - 1 # 0
            THEN read_cap_loop(sd, script, legacy, read_retry - 1, uc, cmds2, dl)
            ELSE [ret |-> -EIO, cmds |-> cmds2, delays |-> dl, freed |-> TRUE]
    IN  IF out = 0
        THEN [ret |-> size_mb(x.buffer), cmds |-> cmds2, delays |-> delays, freed |-> TRUE]
        ELSE IF out > 0
        THEN IF ~use_cap16
             THEN again(FALSE, delays)
             ELSE IF ~scsi_sense_valid(sshdr)
             THEN again(use_cap16, delays)
             ELSE IF hard_refusal(sshdr)
             THEN [ret |-> -EINVAL, cmds |-> cmds2, delays |-> delays, freed |-> FALSE]
             ELSE IF drive_busy(sshdr)
             THEN again(use_cap16, delays + 1)
             ELSE again(use_cap16, delays)
        ELSE again(use_cap16, delays)

\* opportunistic_read_capacity with one attempt less
opportunistic_read_capacity_short(sd, alloc_ok, script, legacy) ==
    IF ~alloc_ok
    THEN [ret |-> -EFAULT, cmds |-> <<>>, delays |-> 0, freed |-> TRUE]
    ELSE read_cap_loop(sd, script, legacy, SCSI_CAP_MAX_RETRIES - 1, TRUE, <<>>, 0)

\* opportunistic_read_capacity with one attempt more
opportunistic_read_capacity_long(sd, alloc_ok, script, legacy) ==
    IF ~alloc_ok
    THEN [ret |-> -EFAULT, cmds |-> <<>>, delays |-> 0, freed |-> TRUE]
    ELSE read_cap_loop(sd, script, legacy, SCSI_CAP_MAX_RETRIES + 1, TRUE, <<>>, 0)

\* long long opportunistic_read_capacity(struct scsi_device *sdp): the value
\* returned, the commands issued, the msleep(500) calls taken, and whether the
\* kmalloc'ed buffer was released (alloc_ok: whether kmalloc succeeded)
opportunistic_read_capacity(sd, alloc_ok, script, legacy) ==
    IF ~alloc_ok
    THEN [ret |-> -EFAULT, cmds |-> <<>>, delays |-> 0, freed |-> TRUE]
    ELSE read_cap_loop(sd, script, legacy, SCSI_CAP_MAX_RETRIES, TRUE, <<>>, 0)

\* every value the pre-read of device d can return, over all the drive's answers
QueryRets ==
    [d \in Devs |-> { opportunistic_read_capacity(sdev(d), a, s, l).ret :
                        a \in BOOLEAN, s \in Scripts, l \in LegacyResponses }]

-----------------------------------------------------------------------------
(* Frames: the position and the locals of each running function *)

\* the threads on which the bus layer delivers device arrivals
BusThreads == {"bus1", "bus2"}

\* "existing" and "rescan" run on the thread that called register: the visit of
\* on_existing_device() and the probe its rescan triggers
Slots == BusThreads \cup {"existing", "rescan"}

NoFrame ==
    [fn |-> "none", pc |-> "idle", dev |-> 0,
     probed |-> FALSE,      \* opportunistic_read_capacity() was called
     cap |-> 0,             \* capacity_mib
     target |-> "?",        \* what is_shim_target() returned: "yes", "no"
     warned |-> FALSE,      \* the "already shimmed" warning was logged
     calls |-> 0,           \* calls of org_sd_probe(dev)
     seen |-> <<>>,         \* vendor and model as sd_probe() found them
     org_ret |-> 0,         \* what sd_probe() returned
     ret |-> 0]             \* what this function returns

Enter(fn, d) == [NoFrame EXCEPT !.fn = fn, !.pc = "is_sata_disk", !.dev = d]

NoReg ==
    [fn |-> "none", pc |-> "idle", cfg |-> [type |-> "none", dom_size_mib |-> 0],
     idx |-> 0, ret |-> 0]

\* the slots of the thread that runs probe_existing_devices()
ScanSlots == {"existing", "rescan"}

\* the kernel log and the bus operations of one probe_existing_devices() run
NoScanLog ==
    [mapped0 |-> FALSE,     \* device_mapped when the scan started
     removed |-> {},        \* devices scsi_remove_device() was called on
     warned |-> {},         \* devices of the "already shimmed" warnings
     failed |-> {},         \* devices whose capacity pre-read failed
     reprobed |-> {}]       \* devices the rescan took through drv->probe

\* nothing is running: the calls into the shim are taken one at a time
Quiet == reg.pc = "idle" /\ \A s \in Slots : fr[s].pc = "idle"

-----------------------------------------------------------------------------
(* is_sata_disk(), is_shim_target() *)

\* is_sata_disk that does not look at the port type of the host
is_sata_disk_any_port(sd) == sd.is_sdev /\ sd.type = TYPE_DISK

is_sata_disk(sd) ==
    IF ~sd.is_sdev
    THEN FALSE
    ELSE IF sd.type # TYPE_DISK \/ sd.port_type # SYNO_PORT_TYPE_SATA
    THEN FALSE
    ELSE TRUE

\* capacity_rejected with the threshold taken as exclusive
capacity_rejected_exclusive(capacity_mib, max) == capacity_mib < 0 \/ capacity_mib >= max

\* capacity_rejected without the check of a failed pre-read
capacity_rejected_no_errcheck(capacity_mib, max) == capacity_mib > max

\* is_shim_target(): the two early returns on the capacity that was read
\* (capacity_mib < 0, capacity_mib > max_dom_size_mib)
capacity_rejected(capacity_mib, max) == capacity_mib < 0 \/ capacity_mib > max

\* Rejected that returns at once instead of going to the proxy label
Rejected_skips_probe(f) == [f EXCEPT !.pc = "return", !.ret = 0]

\* where a frame goes when is_sata_disk() or is_shim_target() said no:
\* goto proxy in sd_probe_shim(), return 0 in on_existing_device()
Rejected(f) ==
    IF f.fn = "sd_probe_shim"
    THEN [f EXCEPT !.pc = "proxy"]
    ELSE [f EXCEPT !.pc = "return", !.ret = 0]

\* is_shim_target() returns false
NotTarget(f) == Rejected([f EXCEPT !.target = "no"])

\* IsSataDisk that takes every device for a SATA disk
IsSataDisk_unchecked(s) ==
    /\ fr[s].pc = "is_sata_disk"
    /\ fr' = [fr EXCEPT ![s] = [@ EXCEPT !.pc = "read_capacity"]]
    /\ UNCHANGED <<engine, vendor, model, onbus, shimmed, scan_log, reg, qry>>

\* if (!is_sata_disk(dev)) in sd_probe_shim() and in on_existing_device()
IsSataDisk(s) ==
    /\ fr[s].pc = "is_sata_disk"
    /\ fr' = [fr EXCEPT ![s] = IF is_sata_disk(sdev(fr[s].dev))
                               THEN [@ EXCEPT !.pc = "read_capacity"]
                               ELSE Rejected(@)]
    /\ UNCHANGED <<engine, vendor, model, onbus, shimmed, scan_log, reg, qry>>

\* is_shim_target(): long long capacity_mib = opportunistic_read_capacity(sdp)
ReadCapacity(s) ==
    /\ fr[s].pc = "read_capacity"
    /\ \E c \in QueryRets[fr[s].dev] :
          /\ fr' = [fr EXCEPT ![s] = [@ EXCEPT !.pc = "check_capacity", !.probed = TRUE,
                                                   !.cap = c]]
          /\ scan_log' = IF s \in ScanSlots /\ c < 0
                         THEN [scan_log EXCEPT !.failed = @ \cup {fr[s].dev}]
                         ELSE scan_log
    /\ UNCHANGED <<engine, vendor, model, onbus, shimmed, reg, qry>>

\* is_shim_target(): the capacity checks, reading max_dom_size_mib
CheckCapacity(s) ==
    /\ fr[s].pc = "check_capacity"
    /\ fr' = [fr EXCEPT ![s] = IF capacity_rejected(@.cap, max_dom_size_mib)
                               THEN NotTarget(@)
                               ELSE [@ EXCEPT !.pc = "check_mapped"]]
    /\ UNCHANGED <<engine, vendor, model, onbus, shimmed, scan_log, reg, qry>>

\* is_shim_target(): if (unlikely(device_mapped)) { pr_loc_wrn(...); return false; }
CheckMapped(s) ==
    /\ fr[s].pc = "check_mapped"
    /\ fr' = [fr EXCEPT ![s] =
                IF device_mapped
                THEN NotTarget([@ EXCEPT !.warned = TRUE])
                ELSE [@ EXCEPT !.target = "yes",
                               !.pc = IF fr[s].fn = "sd_probe_shim" THEN "set_vendor"
                                                                    ELSE "remove"]]
    /\ scan_log' = IF s \in ScanSlots /\ device_mapped
                   THEN [scan_log EXCEPT !.warned = @ \cup {fr[s].dev}]
                   ELSE scan_log
    /\ UNCHANGED <<engine, vendor, model, onbus, shimmed, reg, qry>>

-----------------------------------------------------------------------------
(* sd_probe_shim() *)

\* the bus layer enumerates device d and calls drv->probe on it: the shim when
\* it is swapped in, sd_probe() itself otherwise
Arrive(t, d) ==
    /\ fr[t].pc = "idle"
    /\ d \notin onbus
    /\ onbus' = onbus \cup {d}
    /\ fr' = IF drv_probe = "sd_probe_shim"
             THEN [fr EXCEPT ![t] = Enter("sd_probe_shim", d)]
             ELSE fr
    /\ UNCHANGED <<engine, vendor, model, shimmed, scan_log, reg, qry>>

\* pr_loc_dbg("Shimming device ..."); sdp->vendor = CONFIG_SYNO_SATA_DOM_VENDOR
SetVendor(s) ==
    /\ fr[s].pc = "set_vendor"
    /\ vendor' = [vendor EXCEPT ![fr[s].dev] = CONFIG_SYNO_SATA_DOM_VENDOR]
    /\ shimmed' = shimmed \cup {fr[s].dev}
    /\ fr' = [fr EXCEPT ![s].pc = "set_model"]
    /\ UNCHANGED <<engine, model, onbus, scan_log, reg, qry>>

\* SetModel that leaves sdp->model as it is
SetModel_skips(s) ==
    /\ fr[s].pc = "set_model"
    /\ fr' = [fr EXCEPT ![s].pc = "set_mapped"]
    /\ UNCHANGED <<engine, vendor, model, onbus, shimmed, scan_log, reg, qry>>

\* sdp->model = CONFIG_SYNO_SATA_DOM_MODEL
SetModel(s) ==
    /\ fr[s].pc = "set_model"
    /\ model' = [model EXCEPT ![fr[s].dev] = CONFIG_SYNO_SATA_DOM_MODEL]
    /\ fr' = [fr EXCEPT ![s].pc = "set_mapped"]
    /\ UNCHANGED <<engine, vendor, onbus, shimmed, scan_log, reg, qry>>

\* SetMapped that leaves device_mapped as it is
SetMapped_forgets(s) ==
    /\ fr[s].pc = "set_mapped"
    /\ fr' = [fr EXCEPT ![s].pc = "proxy"]
    /\ UNCHANGED <<engine, vendor, model, onbus, shimmed, scan_log, reg, qry>>

\* device_mapped = true
SetMapped(s) ==
    /\ fr[s].pc = "set_mapped"
    /\ device_mapped' = TRUE
    /\ fr' = [fr EXCEPT ![s].pc = "proxy"]
    /\ UNCHANGED <<drv_probe, org_sd_probe, max_dom_size_mib, vendor, model, onbus, shimmed, scan_log, reg, qry>>

\* proxy: return org_sd_probe(dev): sd_probe() sees the device as it is now
\* and its result is the shim's; a call through a NULL org_sd_probe is an oops
Proxy(s) ==
    /\ fr[s].pc = "proxy"
    /\ \E r \in SdProbeRets :
          fr' = [fr EXCEPT ![s] =
                   IF org_sd_probe = "NULL"
                   THEN [@ EXCEPT !.pc = "oops"]
                   ELSE [@ EXCEPT !.pc = "return", !.calls = @ + 1,
                                  !.seen = <<vendor[fr[s].dev], model[fr[s].dev]>>,
                                  !.org_ret = r, !.ret = r]]
    /\ UNCHANGED <<engine, vendor, model, onbus, shimmed, scan_log, reg, qry>>

\* sd_probe_shim() returns: to the bus layer, or into the rescan that
\* on_existing_device() triggered
ProbeReturn(s) ==
    /\ fr[s].fn = "sd_probe_shim"
    /\ fr[s].pc = "return"
    /\ fr' = IF s = "rescan"
             THEN [fr EXCEPT ![s] = NoFrame, !["existing"].pc = "return"]
             ELSE [fr EXCEPT ![s] = NoFrame]
    /\ scan_log' = IF s = "rescan"
                   THEN [scan_log EXCEPT !.reprobed = @ \cup {fr[s].dev}]
                   ELSE scan_log
    /\ UNCHANGED <<engine, vendor, model, onbus, shimmed, reg, qry>>

\* the device is unplugged (no shim code runs): its scsi_device is gone, and a
\* later arrival gets a new one with the INQUIRY strings
Unplug(d) ==
    /\ d \in onbus
    /\ \A s \in Slots : fr[s].dev # d
    /\ onbus' = onbus \ {d}
    /\ vendor' = [vendor EXCEPT ![d] = INQUIRY_VENDOR]
    /\ model' = [model EXCEPT ![d] = INQUIRY_MODEL]
    /\ UNCHANGED <<engine, shimmed, scan_log, fr, reg, qry>>

-----------------------------------------------------------------------------
(* on_existing_device(), probe_existing_devices() *)

\* scsi_remove_device(sdp)
RemoveDevice ==
    /\ fr["existing"].pc = "remove"
    /\ onbus' = onbus \ {fr["existing"].dev}
    /\ vendor' = [vendor EXCEPT ![fr["existing"].dev] = INQUIRY_VENDOR]
    /\ model' = [model EXCEPT ![fr["existing"].dev] = INQUIRY_MODEL]
    /\ fr' = [fr EXCEPT !["existing"].pc = "scan"]
    /\ scan_log' = [scan_log EXCEPT !.removed = @ \cup {fr["existing"].dev}]
    /\ UNCHANGED <<engine, shimmed, reg, qry>>

\* host->transportt->user_scan(...) or _scsi_scan_host_selected(...): the host
\* finds the device again and the bus layer calls drv->probe on it
ScanHost ==
    /\ fr["existing"].pc = "scan"
    /\ onbus' = onbus \cup {fr["existing"].dev}
    /\ fr' = IF drv_probe = "sd_probe_shim"
             THEN [fr EXCEPT !["existing"].pc = "scanning",
                             !["rescan"] = Enter("sd_probe_shim", fr["existing"].dev)]
             ELSE [fr EXCEPT !["existing"].pc = "return"]
    /\ UNCHANGED <<engine, vendor, model, shimmed, scan_log, reg, qry>>

\* ExistingReturn that returns non-zero, which ends bus_for_each_dev()
ExistingReturn_stops ==
    /\ fr["existing"].fn = "on_existing_device"
    /\ fr["existing"].pc = "return"
    /\ fr' = [fr EXCEPT !["existing"] = NoFrame]
    /\ reg' = [reg EXCEPT !.pc = "return", !.ret = 0]
    /\ UNCHANGED <<engine, vendor, model, onbus, shimmed, scan_log, qry>>

\* on_existing_device() returns 0: bus_for_each_dev() goes on
ExistingReturn ==
    /\ fr["existing"].fn = "on_existing_device"
    /\ fr["existing"].pc = "return"
    /\ fr' = [fr EXCEPT !["existing"] = NoFrame]
    /\ reg' = [reg EXCEPT !.pc = "next_dev"]
    /\ UNCHANGED <<engine, vendor, model, onbus, shimmed, scan_log, qry>>

\* bus_for_each_dev(drv->bus, NULL, NULL, on_existing_device): the next device
\* in bus order, or the end of the scan and of register_sata_boot_shim()
NextDevice ==
    /\ reg.pc = "next_dev"
    /\ LET rest == {d \in onbus : d > reg.idx} IN
       IF rest = {}
       THEN /\ reg' = [reg EXCEPT !.pc = "return", !.ret = 0]
            /\ fr' = fr
       ELSE LET d == CHOOSE x \in rest : \A y \in rest : x <= y IN
            /\ reg' = [reg EXCEPT !.pc = "visit", !.idx = d]
            /\ fr' = [fr EXCEPT !["existing"] = Enter("on_existing_device", d)]
    /\ UNCHANGED <<engine, vendor, model, onbus, shimmed, scan_log, qry>>

-----------------------------------------------------------------------------
(* register_sata_boot_shim(), unregister_sata_boot_shim() *)

RegisterCall(cfg) ==
    /\ reg.pc = "idle"
    /\ reg' = [NoReg EXCEPT !.fn = "register", !.pc = "entry", !.cfg = cfg]
    /\ UNCHANGED <<engine, vendor, model, onbus, shimmed, scan_log, fr, qry>>

\* RegisterEntry without the check of org_sd_probe
RegisterEntry_no_exist_check ==
    /\ reg.fn = "register"
    /\ reg.pc = "entry"
    /\ \E found \in BOOLEAN :
          reg' = IF reg.cfg.type # BOOT_MEDIA_SATA
                 THEN [reg EXCEPT !.pc = "return", !.ret = -EINVAL]
                 ELSE IF ~found
                 THEN [reg EXCEPT !.pc = "return", !.ret = -ENODEV]
                 ELSE [reg EXCEPT !.pc = "set_max"]
    /\ UNCHANGED <<engine, vendor, model, onbus, shimmed, scan_log, fr, qry>>

\* the three checks of register_sata_boot_shim(); driver_find() may fail
RegisterEntry ==
    /\ reg.fn = "register"
    /\ reg.pc = "entry"
    /\ \E found \in BOOLEAN :
          reg' = IF reg.cfg.type # BOOT_MEDIA_SATA
                 THEN [reg EXCEPT !.pc = "return", !.ret = -EINVAL]
                 ELSE IF org_sd_probe # "NULL"
                 THEN [reg EXCEPT !.pc = "return", !.ret = -EEXIST]
                 ELSE IF ~found
                 THEN [reg EXCEPT !.pc = "return", !.ret = -ENODEV]
                 ELSE [reg EXCEPT !.pc = "set_max"]
    /\ UNCHANGED <<engine, vendor, model, onbus, shimmed, scan_log, fr, qry>>

\* max_dom_size_mib = boot_dev_config->dom_size_mib
RegisterSetMax ==
    /\ reg.pc = "set_max"
    /\ max_dom_size_mib' = reg.cfg.dom_size_mib
    /\ reg' = [reg EXCEPT !.pc = "set_org"]
    /\ UNCHANGED <<drv_probe, org_sd_probe, device_mapped, vendor, model, onbus, shimmed, scan_log, fr, qry>>

\* org_sd_probe = drv->probe
RegisterSetOrg ==
    /\ reg.pc = "set_org"
    /\ org_sd_probe' = drv_probe
    /\ reg' = [reg EXCEPT !.pc = "swap"]
    /\ UNCHANGED <<drv_probe, max_dom_size_mib, device_mapped, vendor, model, onbus, shimmed, scan_log, fr, qry>>

\* drv->probe = sd_probe_shim; then probe_existing_devices(drv)
RegisterSwap ==
    /\ reg.pc = "swap"
    /\ drv_probe' = "sd_probe_shim"
    /\ reg' = [reg EXCEPT !.pc = "next_dev", !.idx = 0]
    /\ scan_log' = [NoScanLog EXCEPT !.mapped0 = device_mapped]
    /\ UNCHANGED <<org_sd_probe, max_dom_size_mib, device_mapped, vendor, model, onbus, shimmed, fr, qry>>

UnregisterCall ==
    /\ reg.pc = "idle"
    /\ reg' = [NoReg EXCEPT !.fn = "unregister", !.pc = "entry"]
    /\ UNCHANGED <<engine, vendor, model, onbus, shimmed, scan_log, fr, qry>>

\* the two checks of unregister_sata_boot_shim(); driver_find() may fail
UnregisterEntry ==
    /\ reg.fn = "unregister"
    /\ reg.pc = "entry"
    /\ \E found \in BOOLEAN :
          reg' = IF org_sd_probe = "NULL"
                 THEN [reg EXCEPT !.pc = "return", !.ret = -ENOENT]
                 ELSE IF ~found
                 THEN [reg EXCEPT !.pc = "return", !.ret = -ENODEV]
                 ELSE [reg EXCEPT !.pc = "restore"]
    /\ UNCHANGED <<engine, vendor, model, onbus, shimmed, scan_log, fr, qry>>

\* UnregisterRestore that clears org_sd_probe before drv->probe is restored
UnregisterRestore_clears_first ==
    /\ reg.pc = "restore"
    /\ org_sd_probe' = "NULL"
    /\ reg' = [reg EXCEPT !.pc = "clear_org"]
    /\ UNCHANGED <<drv_probe, max_dom_size_mib, device_mapped, vendor, model, onbus, shimmed, scan_log, fr, qry>>

\* drv->probe = org_sd_probe
UnregisterRestore ==
    /\ reg.pc = "restore"
    /\ drv_probe' = org_sd_probe
    /\ reg' = [reg EXCEPT !.pc = "clear_org"]
    /\ UNCHANGED <<org_sd_probe, max_dom_size_mib, device_mapped, vendor, model, onbus, shimmed, scan_log, fr, qry>>

\* org_sd_probe = NULL
UnregisterClearOrg ==
    /\ reg.pc = "clear_org"
    /\ org_sd_probe' = "NULL"
    /\ reg' = [reg EXCEPT !.pc = "clear_max"]
    /\ UNCHANGED <<drv_probe, max_dom_size_mib, device_mapped, vendor, model, onbus, shimmed, scan_log, fr, qry>>

\* UnregisterClearMax that leaves max_dom_size_mib as it is
UnregisterClearMax_skips ==
    /\ reg.pc = "clear_max"
    /\ reg' = [reg EXCEPT !.pc = "return", !.ret = 0]
    /\ UNCHANGED <<engine, vendor, model, onbus, shimmed, scan_log, fr, qry>>

\* UnregisterClearMax that resets device_mapped as well
UnregisterClearMax_clears_mapped ==
    /\ reg.pc = "clear_max"
    /\ max_dom_size_mib' = 0
    /\ device_mapped' = FALSE
    /\ reg' = [reg EXCEPT !.pc = "return", !.ret = 0]
    /\ UNCHANGED <<drv_probe, org_sd_probe, vendor, model, onbus, shimmed, scan_log, fr, qry>>

\* max_dom_size_mib = 0; device_mapped is left as it is
UnregisterClearMax ==
    /\ reg.pc = "clear_max"
    /\ max_dom_size_mib' = 0
    /\ reg' = [reg EXCEPT !.pc = "return", !.ret = 0]
    /\ UNCHANGED <<drv_probe, org_sd_probe, device_mapped, vendor, model, onbus, shimmed, scan_log, fr, qry>>

\* register_/unregister_sata_boot_shim() returns reg.ret to its caller
RegReturn ==
    /\ reg.pc = "return"
    /\ reg' = NoReg
    /\ scan_log' = NoScanLog
    /\ UNCHANGED <<engine, vendor, model, onbus, shimmed, fr, qry>>

-----------------------------------------------------------------------------
(* The shim with its calls taken one at a time *)

NoQuery == [pc |-> "none", dev |-> 0, alloc_ok |-> TRUE, script |-> <<>>,
            legacy |-> RespOk, res |-> [ret |-> 0, cmds |-> <<>>, delays |-> 0, freed |-> TRUE],
            buffer |-> <<>>, size_mb |-> <<>>]

\* module load: the sd driver probes with sd_probe(), any devices may have been
\* enumerated already, nothing is registered
Init ==
    /\ drv_probe = "sd_probe"
    /\ org_sd_probe = "NULL"
    /\ max_dom_size_mib = 0
    /\ device_mapped = FALSE
    /\ vendor = [d \in Devs |-> INQUIRY_VENDOR]
    /\ model = [d \in Devs |-> INQUIRY_MODEL]
    /\ onbus \in SUBSET Devs
    /\ shimmed = {}
    /\ scan_log = NoScanLog
    /\ fr = [s \in Slots |-> NoFrame]
    /\ reg = NoReg
    /\ qry = NoQuery

Next ==
    \/ \E t \in BusThreads, d \in Devs : Quiet /\ Arrive(t, d)
    \/ \E d \in Devs : Quiet /\ Unplug(d)
    \/ \E cfg \in BootMedia : Quiet /\ RegisterCall(cfg)
    \/ Quiet /\ UnregisterCall
    \/ \E s \in Slots : IsSataDisk(s)
    \/ \E s \in Slots : ReadCapacity(s)
    \/ \E s \in Slots : CheckCapacity(s)
    \/ \E s \in Slots : CheckMapped(s)
    \/ \E s \in Slots : SetVendor(s)
    \/ \E s \in Slots : SetModel(s)
    \/ \E s \in Slots : SetMapped(s)
    \/ \E s \in Slots : Proxy(s)
    \/ \E s \in Slots : ProbeReturn(s)
    \/ RemoveDevice
    \/ ScanHost
    \/ ExistingReturn
    \/ NextDevice
    \/ RegisterEntry
    \/ RegisterSetMax
    \/ RegisterSetOrg
    \/ RegisterSwap
    \/ UnregisterEntry
    \/ UnregisterRestore
    \/ UnregisterClearOrg
    \/ UnregisterClearMax
    \/ RegReturn

Spec == Init /\ [][Next]_vars

-----------------------------------------------------------------------------
(* The capacity pre-read taken alone, over every answer a drive can give *)

SataDisks == {d \in Devs : is_sata_disk(sdev(d))}

InitQuery ==
    /\ drv_probe = "sd_probe"
    /\ org_sd_probe = "NULL"
    /\ max_dom_size_mib = 0
    /\ device_mapped = FALSE
    /\ vendor = [d \in Devs |-> INQUIRY_VENDOR]
    /\ model = [d \in Devs |-> INQUIRY_MODEL]
    /\ onbus = Devs
    /\ shimmed = {}
    /\ scan_log = NoScanLog
    /\ fr = [s \in Slots |-> NoFrame]
    /\ reg = NoReg
    /\ \E d \in SataDisks, a \in BOOLEAN, s \in Scripts, l \in LegacyResponses :
          qry = [NoQuery EXCEPT !.pc = "call", !.dev = d, !.alloc_ok = a,
                                !.script = s, !.legacy = l]

\* opportunistic_read_capacity(sdp) runs to its return
QueryRun ==
    /\ qry.pc = "call"
    /\ qry' = [qry EXCEPT !.pc = "ret",
                          !.res = opportunistic_read_capacity(
                                     sdev(qry.dev), qry.alloc_ok, qry.script, qry.legacy)]
    /\ UNCHANGED <<engine, vendor, model, onbus, shimmed, scan_log, fr, reg>>

NextQuery == QueryRun

SpecQuery == InitQuery /\ [][NextQuery]_vars

-----------------------------------------------------------------------------
(* The size computation that follows a successful READ CAPACITY(16), over the  *)
(* LBAs and block lengths a drive can put into its answer                      *)

\* the values each byte of the returned LBA is drawn from
ByteValues == {0, 1, 255}

\* the block lengths drawn: 0, 512, 4096, 2^32 - 1
SectorSizes == {<<0, 0, 0, 0>>, <<0, 0, 2, 0>>, <<0, 0, 16, 0>>, <<255, 255, 255, 255>>}

InitSize ==
    /\ drv_probe = "sd_probe"
    /\ org_sd_probe = "NULL"
    /\ max_dom_size_mib = 0
    /\ device_mapped = FALSE
    /\ vendor = [d \in Devs |-> INQUIRY_VENDOR]
    /\ model = [d \in Devs |-> INQUIRY_MODEL]
    /\ onbus = Devs
    /\ shimmed = {}
    /\ scan_log = NoScanLog
    /\ fr = [s \in Slots |-> NoFrame]
    /\ reg = NoReg
    /\ \E lba \in [1..8 -> ByteValues], len \in SectorSizes :
          qry = [NoQuery EXCEPT !.pc = "size_call", !.buffer = lba \o len]

\* the statements of opportunistic_read_capacity() after the loop, out being 0
SizeRun ==
    /\ qry.pc = "size_call"
    /\ qry' = [qry EXCEPT !.pc = "size_ret", !.size_mb = size_mb_bytes(qry.buffer)]
    /\ UNCHANGED <<engine, vendor, model, onbus, shimmed, scan_log, fr, reg>>

NextSize == SizeRun

SpecSize == InitSize /\ [][NextSize]_vars

-----------------------------------------------------------------------------
(* A bus thread running against register and unregister: every assignment is  *)
(* a step of its own, taken in program order.  The bus is empty at module     *)
(* load, thread bus1 delivers the SATA disks that are plugged in, and a disk  *)
(* that was plugged in stays.                                                 *)

InitConc == Init /\ onbus = {}

NextConc ==
    \/ \E d \in SataDisks : Arrive("bus1", d)
    \/ \E cfg \in BootMedia : RegisterCall(cfg)
    \/ UnregisterCall
    \/ \E s \in Slots : IsSataDisk(s)
    \/ \E s \in Slots : ReadCapacity(s)
    \/ \E s \in Slots : CheckCapacity(s)
    \/ \E s \in Slots : CheckMapped(s)
    \/ \E s \in Slots : SetVendor(s)
    \/ \E s \in Slots : SetModel(s)
    \/ \E s \in Slots : SetMapped(s)
    \/ \E s \in Slots : Proxy(s)
    \/ \E s \in Slots : ProbeReturn(s)
    \/ RemoveDevice
    \/ ScanHost
    \/ ExistingReturn
    \/ NextDevice
    \/ RegisterEntry
    \/ RegisterSetMax
    \/ RegisterSetOrg
    \/ RegisterSwap
    \/ UnregisterEntry
    \/ UnregisterRestore
    \/ UnregisterClearOrg
    \/ UnregisterClearMax
    \/ RegReturn

SpecConc == InitConc /\ [][NextConc]_vars

-----------------------------------------------------------------------------
(* Two bus threads running against each other: each host controller has its   *)
(* own thread, and devices arrive while no register or unregister is running  *)

\* the thread that enumerates the devices of the host controller d hangs on
Controller(d) == IF d % 2 = 1 THEN "bus1" ELSE "bus2"

RegIdle == reg.pc = "idle"

NextRace ==
    \/ \E d \in Devs : RegIdle /\ Arrive(Controller(d), d)
    \/ \E d \in Devs : RegIdle /\ Unplug(d)
    \/ \E cfg \in BootMedia : Quiet /\ RegisterCall(cfg)
    \/ Quiet /\ UnregisterCall
    \/ \E s \in Slots : IsSataDisk(s)
    \/ \E s \in Slots : ReadCapacity(s)
    \/ \E s \in Slots : CheckCapacity(s)
    \/ \E s \in Slots : CheckMapped(s)
    \/ \E s \in Slots : SetVendor(s)
    \/ \E s \in Slots : SetModel(s)
    \/ \E s \in Slots : SetMapped(s)
    \/ \E s \in Slots : Proxy(s)
    \/ \E s \in Slots : ProbeReturn(s)
    \/ RemoveDevice
    \/ ScanHost
    \/ ExistingReturn
    \/ NextDevice
    \/ RegisterEntry
    \/ RegisterSetMax
    \/ RegisterSetOrg
    \/ RegisterSwap
    \/ UnregisterEntry
    \/ UnregisterRestore
    \/ UnregisterClearOrg
    \/ UnregisterClearMax
    \/ RegReturn

SpecRace == Init /\ [][NextRace]_vars

-----------------------------------------------------------------------------
(* Properties *)

\* the pcs of a frame between is_shim_target() returning true and the function's end
ShimmingPcs == {"set_vendor", "set_model", "set_mapped"}
ReconnectPcs == {"remove", "scan", "scanning"}

InRange(f) == f.cap >= 0 /\ f.cap <= max_dom_size_mib

\* C1 -- first match wins: once device_mapped is set, no is_shim_target() call
\* that has not returned yet returns true, whatever the capacity it reads; and
\* over the whole run at most one device gets the shim's vendor and model.
C1_FirstMatchWins ==
    /\ [](Cardinality(shimmed) <= 1)
    /\ [](\A d \in Devs : (vendor[d] = CONFIG_SYNO_SATA_DOM_VENDOR
                           \/ model[d] = CONFIG_SYNO_SATA_DOM_MODEL) => d \in shimmed)
    /\ [][\A s \in Slots : (device_mapped /\ fr[s].target = "?") => fr'[s].target # "yes"]_vars

\* C1 witness: a device is shimmed, and another one that fits the threshold has
\* just been refused with the warning
C1_Witness ==
    \E s \in Slots :
        /\ device_mapped
        /\ shimmed # {}
        /\ fr[s].dev \notin shimmed
        /\ fr[s].target = "no"
        /\ fr[s].warned
        /\ InRange(fr[s])

\* C2 -- is_shim_target() returns true exactly when the pre-read succeeded with a
\* capacity <= max_dom_size_mib (the threshold included) and device_mapped is
\* false; a capacity above the threshold is refused whatever device_mapped is.
C2_EligibleExactly ==
    \A s \in Slots :
        /\ (fr[s].target = "yes" /\ fr[s].pc \in {"set_vendor", "remove"})
              => (InRange(fr[s]) /\ ~device_mapped)
        /\ fr[s].target = "yes" => InRange(fr[s])
        /\ fr[s].target = "no" => ~(InRange(fr[s]) /\ ~device_mapped)
        /\ fr[s].target # "?" => (fr[s].probed /\ is_sata_disk(sdev(fr[s].dev)))

\* C2 witness: a disk exactly as large as the threshold was found to be a target
C2_Witness ==
    \E s \in Slots :
        /\ fr[s].target = "yes"
        /\ fr[s].pc = "set_vendor"
        /\ fr[s].cap = max_dom_size_mib
        /\ max_dom_size_mib > 0

\* C3 -- fail closed: a frame whose pre-read failed (-EFAULT, -EINVAL, -EIO) gets
\* "no" from is_shim_target() and never reaches the rewrite of vendor/model, the
\* set of device_mapped, or the remove and rescan of the device.
C3_FailClosed ==
    \A s \in Slots :
        (fr[s].probed /\ fr[s].cap < 0) =>
            /\ fr[s].cap \in {-EFAULT, -EINVAL, -EIO}
            /\ fr[s].target # "yes"
            /\ fr[s].pc \notin ShimmingPcs \cup ReconnectPcs
            /\ fr[s].pc \in {"proxy", "return"} => fr[s].target = "no"
            /\ ~fr[s].warned

\* C3 witness: a drive that refused the capacity command goes to sd_probe()
\* untouched although nothing was shimmed before
C3_Witness ==
    \E s \in Slots :
        /\ fr[s].fn = "sd_probe_shim"
        /\ fr[s].cap = -EINVAL
        /\ fr[s].pc = "return"
        /\ fr[s].target = "no"
        /\ fr[s].seen = <<INQUIRY_VENDOR, INQUIRY_MODEL>>
        /\ ~device_mapped

\* C4 -- every run of sd_probe_shim() calls org_sd_probe(dev) exactly once, as
\* its last step (no call before the decision on the device is made), and returns
\* the value that call returned; no run ends without the call.
C4_AlwaysDelegates ==
    \A s \in Slots :
        fr[s].fn = "sd_probe_shim" =>
            /\ fr[s].pc # "oops"
            /\ fr[s].pc # "return" => fr[s].calls = 0
            /\ fr[s].pc = "return" =>
                  /\ fr[s].calls = 1
                  /\ fr[s].ret = fr[s].org_ret
                  /\ is_sata_disk(sdev(fr[s].dev)) => fr[s].target # "?"

\* C4 witness: a shimmed disk on which sd_probe() failed: the shim returns the failure
C4_Witness ==
    \E s \in Slots :
        /\ fr[s].fn = "sd_probe_shim"
        /\ fr[s].pc = "return"
        /\ fr[s].target = "yes"
        /\ fr[s].calls = 1
        /\ fr[s].ret = -ENODEV

\* C5 -- a SATA disk whose capacity is within the threshold and that met
\* device_mapped false carries the shim's vendor and model, with device_mapped
\* true, from the proxy label on: sd_probe() finds the new identity only.
C5_RewriteBeforeProbe ==
    \A s \in Slots :
        (fr[s].fn = "sd_probe_shim" /\ fr[s].probed /\ InRange(fr[s]) /\ ~fr[s].warned
         /\ fr[s].pc \in {"proxy", "return"}) =>
            /\ vendor[fr[s].dev] = CONFIG_SYNO_SATA_DOM_VENDOR
            /\ model[fr[s].dev] = CONFIG_SYNO_SATA_DOM_MODEL
            /\ device_mapped
            /\ fr[s].calls > 0 =>
                  fr[s].seen = <<CONFIG_SYNO_SATA_DOM_VENDOR, CONFIG_SYNO_SATA_DOM_MODEL>>

\* C5 witness: a disk of 100 MiB under a threshold of 200, after sd_probe() ran
C5_Witness ==
    \E s \in BusThreads :
        /\ fr[s].pc = "return"
        /\ fr[s].cap = 100
        /\ max_dom_size_mib = 200
        /\ fr[s].seen = <<CONFIG_SYNO_SATA_DOM_VENDOR, CONFIG_SYNO_SATA_DOM_MODEL>>
        /\ device_mapped

\* a device that is no sdev, no disk, or not on a SATA port
NotSataDisk(d) ==
    \/ ~sdev(d).is_sdev
    \/ sdev(d).type # TYPE_DISK
    \/ sdev(d).port_type # SYNO_PORT_TYPE_SATA

\* C6 -- for a device that is no SATA disk sd_probe_shim() calls no capacity
\* pre-read and no is_shim_target(), and none of its steps changes drv->probe,
\* org_sd_probe, max_dom_size_mib, device_mapped or any vendor or model: it goes
\* from the is_sata_disk() check to the call of org_sd_probe() and returns.
C6_PassThrough ==
    /\ [](\A s \in Slots :
            (fr[s].fn = "sd_probe_shim" /\ NotSataDisk(fr[s].dev)) =>
                /\ ~fr[s].probed
                /\ fr[s].target = "?"
                /\ fr[s].pc \in {"is_sata_disk", "proxy", "return"}
                /\ vendor[fr[s].dev] = INQUIRY_VENDOR
                /\ model[fr[s].dev] = INQUIRY_MODEL)
    /\ [][\A s \in Slots :
            (fr[s].fn = "sd_probe_shim" /\ NotSataDisk(fr[s].dev) /\ fr'[s] # fr[s]) =>
                /\ UNCHANGED <<engine, vendor, model, onbus, shimmed>>
                /\ fr[s].pc = "is_sata_disk" => fr'[s].pc = "proxy"]_vars

\* C6 witness: a SAS disk after sd_probe() ran on it, the shim registered
C6_Witness ==
    \E s \in BusThreads :
        /\ fr[s].fn = "sd_probe_shim"
        /\ sdev(fr[s].dev).port_type # SYNO_PORT_TYPE_SATA
        /\ fr[s].pc = "return"
        /\ fr[s].calls = 1
        /\ fr[s].seen = <<INQUIRY_VENDOR, INQUIRY_MODEL>>

\* what the sd driver and the shim's statics hold outside register/unregister
Uninstalled == drv_probe = "sd_probe" /\ org_sd_probe = "NULL" /\ max_dom_size_mib = 0
Installed ==
    /\ drv_probe = "sd_probe_shim"
    /\ org_sd_probe = "sd_probe"
    /\ max_dom_size_mib \in {c.dom_size_mib : c \in BootMedia}

\* the checks at the entry of register/unregister are taken in this step
EntryStep == reg.pc = "entry" /\ reg'.pc # "entry"

\* C7 as stated -- register called while registered fails with -EEXIST
\* (AlreadyInstalled), whatever the configuration, and changes nothing;
\* unregister called while not registered fails with -ENOENT and changes nothing.
C7_MisuseRejected_AsStated ==
    [][(EntryStep /\ reg.fn = "register" /\ org_sd_probe # "NULL") =>
          /\ reg'.pc = "return"
          /\ reg'.ret = -EEXIST
          /\ UNCHANGED <<engine, vendor, model, onbus, shimmed, fr>>]_vars

\* C7 amended -- register called while registered changes nothing and starts no
\* scan of the existing devices: it fails with -EEXIST when the configuration is
\* of type SATA (also with another dom_size_mib), and with -EINVAL when it is of
\* another type, that check coming first; unregister called while not registered
\* fails with -ENOENT and changes nothing.
C7_MisuseRejected ==
    [][/\ (EntryStep /\ reg.fn = "register" /\ org_sd_probe # "NULL") =>
             /\ reg'.pc = "return"
             /\ reg'.ret = IF reg.cfg.type = BOOT_MEDIA_SATA THEN -EEXIST ELSE -EINVAL
             /\ UNCHANGED <<engine, vendor, model, onbus, shimmed, fr>>
       /\ (EntryStep /\ reg.fn = "unregister" /\ org_sd_probe = "NULL") =>
             /\ reg'.pc = "return"
             /\ reg'.ret = -ENOENT
             /\ UNCHANGED <<engine, vendor, model, onbus, shimmed, fr>>
       /\ (reg.pc = "return" /\ reg' # reg) =>
             /\ reg' = NoReg
             /\ UNCHANGED <<engine, vendor, model, onbus, shimmed, fr>>]_vars

\* C7 witness: a second register, with another dom_size_mib, has failed with -EEXIST
C7_Witness ==
    /\ reg.fn = "register"
    /\ reg.pc = "return"
    /\ reg.ret = -EEXIST
    /\ reg.cfg.dom_size_mib # max_dom_size_mib
    /\ Installed

\* C8 -- between the calls of register and unregister the shim is either
\* unregistered (drv->probe = sd_probe, org_sd_probe NULL, max_dom_size_mib 0) or
\* registered (drv->probe = sd_probe_shim, org_sd_probe = sd_probe,
\* max_dom_size_mib of the register that succeeded last): a register that returns
\* 0 leaves it registered with its dom_size_mib, an unregister that returns 0
\* leaves it unregistered, a call that fails leaves it as it was, nothing else
\* changes the three, and register goes ahead again once unregistered.
C8_TwoStates ==
    /\ [](reg.pc = "idle" => (Uninstalled \/ Installed))
    /\ [][/\ (reg.pc = "return" /\ reg.fn = "register" /\ reg.ret = 0) =>
                (Installed /\ max_dom_size_mib = reg.cfg.dom_size_mib)
          /\ (reg.pc = "return" /\ reg.fn = "unregister" /\ reg.ret = 0) => Uninstalled
          /\ (EntryStep /\ reg'.pc = "return") =>
                (reg'.ret # 0 /\ UNCHANGED <<drv_probe, org_sd_probe, max_dom_size_mib>>)
          /\ (reg.pc \in {"idle", "return", "next_dev", "visit"}) =>
                UNCHANGED <<drv_probe, org_sd_probe, max_dom_size_mib>>
          /\ (EntryStep /\ reg.fn = "register" /\ Uninstalled
              /\ reg.cfg.type = BOOT_MEDIA_SATA) =>
                (reg'.pc = "set_max" \/ reg'.ret = -ENODEV)]_vars

\* C8 witness: registered with 100 MiB while the 101 MiB disk is the one that was
\* shimmed: an earlier register with 200 MiB and an unregister lie in between
C8_Witness ==
    /\ reg.fn = "register"
    /\ reg.pc = "return"
    /\ reg.ret = 0
    /\ max_dom_size_mib = 100
    /\ \E d \in shimmed :
          size_mb(be_bytes(sdev(d).lba, 8) \o be_bytes(sdev(d).sector_size, 4)) = 101

\* the capacity of the drive in full mebibytes
TrueMiB(d) == ((sdev(d).lba + 1) * sdev(d).sector_size) \div 1048576

\* C9 -- a pre-read whose READ CAPACITY(16) fails on every attempt while the
\* drive answers READ CAPACITY(10) goes over to READ CAPACITY(10) and returns the
\* capacity the drive reports there.
C9_LegacyFallback ==
    (/\ qry.pc = "ret"
     /\ qry.alloc_ok
     /\ \A i \in DOMAIN qry.script : qry.script[i].out # 0
     /\ qry.legacy = RespOk) =>
        /\ qry.res.ret = TrueMiB(qry.dev)
        /\ \E i \in DOMAIN qry.res.cmds : qry.res.cmds[i] = "READ_CAPACITY_10"

\* C10 -- a pre-read that gets N < SCSI_CAP_MAX_RETRIES "busy" answers (UNIT
\* ATTENTION 0x29/0x00) and then a good one returns the capacity, the same value
\* as after a good first answer, having slept once per busy answer.
C10_BusyThenSuccess ==
    \A n \in 0..(SCSI_CAP_MAX_RETRIES - 1) :
        (/\ qry.pc = "ret"
         /\ qry.alloc_ok
         /\ n + 1 \in DOMAIN qry.script
         /\ \A i \in 1..n : qry.script[i] = RespBusy
         /\ qry.script[n + 1] = RespOk) =>
            /\ qry.res.ret = TrueMiB(qry.dev)
            /\ qry.res.ret =
                  opportunistic_read_capacity(sdev(qry.dev), TRUE,
                        [i \in DOMAIN qry.script |-> RespOk], qry.legacy).ret
            /\ qry.res.delays = n
            /\ Len(qry.res.cmds) = n + 1
            /\ qry.res.freed

\* C10 witness: two busy answers and then the capacity
C10_Witness ==
    /\ qry.pc = "ret"
    /\ qry.alloc_ok
    /\ qry.script[1] = RespBusy
    /\ qry.script[2] = RespBusy
    /\ qry.script[3] = RespOk
    /\ qry.res.ret = 100
    /\ qry.res.delays = 2

\* the answers with which a drive refuses the capacity command for good
RefusalResponses == {RespBadOp, RespBadFld}

EligibleOnBus(max) == {d \in onbus : is_sata_disk(sdev(d)) /\ TrueMiB(d) <= max}

\* register_sata_boot_shim() has run to its return 0, the scan included
InstallDone == reg.fn = "register" /\ reg.pc = "return" /\ reg.ret = 0

C13_NeverYanksDataDrive ==
    /\ [](fr["existing"].pc \in {"remove", "scan"} =>
            /\ is_sata_disk(sdev(fr["existing"].dev))
            /\ fr["existing"].probed
            /\ fr["existing"].cap = TrueMiB(fr["existing"].dev)
            /\ fr["existing"].cap >= 0
            /\ fr["existing"].cap <= max_dom_size_mib
            /\ ~device_mapped)
    /\ [](\A d \in scan_log.removed :
            /\ ~NotSataDisk(d)
            /\ TrueMiB(d) <= max_dom_size_mib)
    /\ [][(reg.pc # "idle" /\ ~(onbus \subseteq onbus')) =>
            /\ fr["existing"].pc = "remove"
            /\ onbus \ onbus' = {fr["existing"].dev}
            /\ scan_log'.removed = scan_log.removed \cup {fr["existing"].dev}]_vars

\* C13 witness: a disk exactly as large as the threshold is off the bus, between
\* scsi_remove_device() and the rescan, while the larger disk is still on it
C13_Witness ==
    /\ fr["existing"].pc = "scan"
    /\ fr["existing"].dev \notin onbus
    /\ fr["existing"].cap = max_dom_size_mib
    /\ \E d \in onbus : ~NotSataDisk(d) /\ TrueMiB(d) > max_dom_size_mib

\* C14 -- device_mapped is false until a device is shimmed, it is set only by
\* the step of sd_probe_shim() that follows the rewrite of a target's vendor and
\* model, and no step (those of unregister included) clears it; while it is set,
\* also after an unregister and a new register, no device is removed and
\* rescanned and no vendor or model gets the shim's strings.
C14_MappedSticky ==
    /\ [](shimmed = {} => ~device_mapped)
    /\ [][device_mapped => device_mapped']_vars
    /\ [][(~device_mapped /\ device_mapped') =>
            \E s \in Slots :
                /\ fr[s].fn = "sd_probe_shim"
                /\ fr[s].pc = "set_mapped"
                /\ fr[s].target = "yes"
                /\ vendor[fr[s].dev] = CONFIG_SYNO_SATA_DOM_VENDOR
                /\ model[fr[s].dev] = CONFIG_SYNO_SATA_DOM_MODEL]_vars
    /\ [](device_mapped => \A s \in Slots : fr[s].pc \notin ShimmingPcs \cup {"remove", "scan"})
    /\ [][device_mapped =>
            /\ shimmed' = shimmed
            /\ onbus \subseteq onbus' \/ reg.pc = "idle"
            /\ \A d \in Devs :
                  /\ vendor'[d] \in {vendor[d], INQUIRY_VENDOR}
                  /\ model'[d] \in {model[d], INQUIRY_MODEL}]_vars

\* C14 witness: registered again, now with 100 MiB, after the 101 MiB disk was
\* shimmed under an earlier register: the scan finds the 100 MiB disk, warns, and
\* leaves it alone
C14_Witness ==
    /\ reg.fn = "register"
    /\ max_dom_size_mib = 100
    /\ device_mapped
    /\ \E d \in shimmed : TrueMiB(d) = 101
    /\ fr["existing"].pc = "return"
    /\ fr["existing"].cap = 100
    /\ fr["existing"].warned
    /\ fr["existing"].dev \in onbus
    /\ vendor[fr["existing"].dev] = INQUIRY_VENDOR

\* the values register_sata_boot_shim() can set max_dom_size_mib to
DomSizes == {c.dom_size_mib : c \in BootMedia}

\* register_sata_boot_shim() is past its three assignments and has not failed
RegisterPublished ==
    /\ reg.fn = "register"
    /\ reg.pc \in {"next_dev", "visit"} \/ (reg.pc = "return" /\ reg.ret = 0)

\* C15 -- with each assignment of register and unregister a step of its own:
\* whenever drv->probe is sd_probe_shim, org_sd_probe holds sd_probe and
\* max_dom_size_mib holds the dom_size_mib of the register that set it, so every
\* sd_probe_shim() call the bus layer starts finds both set; register writes
\* max_dom_size_mib, then org_sd_probe, then drv->probe, and unregister restores
\* drv->probe before it clears org_sd_probe and then max_dom_size_mib.
C15_PublicationOrder ==
    /\ [](drv_probe = "sd_probe_shim" =>
            /\ org_sd_probe = "sd_probe"
            /\ max_dom_size_mib \in DomSizes
            /\ RegisterPublished => max_dom_size_mib = reg.cfg.dom_size_mib)
    /\ [][\A s \in Slots :
            (fr[s].pc = "idle" /\ fr'[s].fn = "sd_probe_shim") =>
                (org_sd_probe = "sd_probe" /\ max_dom_size_mib \in DomSizes)]_vars
    /\ [][/\ (org_sd_probe = "NULL" /\ org_sd_probe' # "NULL") =>
                (max_dom_size_mib = reg.cfg.dom_size_mib /\ drv_probe = "sd_probe")
          /\ (drv_probe = "sd_probe" /\ drv_probe' = "sd_probe_shim") =>
                (max_dom_size_mib = reg.cfg.dom_size_mib /\ org_sd_probe = "sd_probe")
          /\ (org_sd_probe # "NULL" /\ org_sd_probe' = "NULL") => drv_probe = "sd_probe"
          /\ (max_dom_size_mib # 0 /\ max_dom_size_mib' = 0) =>
                (drv_probe = "sd_probe" /\ org_sd_probe = "NULL")]_vars

\* C15 witness: a disk arrives right after the swap, before the scan of the
\* existing devices has begun, and its probe is the shim
C15_Witness ==
    /\ reg.fn = "register"
    /\ reg.pc = "next_dev"
    /\ reg.idx = 0
    /\ fr["bus1"].fn = "sd_probe_shim"
    /\ fr["bus1"].pc = "is_sata_disk"
    /\ org_sd_probe = "sd_probe"
    /\ max_dom_size_mib = reg.cfg.dom_size_mib

\* C16 -- a sd_probe_shim() call that is in progress while unregister runs
\* still ends in sd_probe(): the org_sd_probe it calls at the proxy label is not
\* NULL, and the max_dom_size_mib it compares the capacity with is the one that
\* was registered.
C16_InProgressDelegates ==
    \A s \in Slots :
        fr[s].fn = "sd_probe_shim" =>
            /\ fr[s].pc # "oops"
            /\ fr[s].pc = "proxy" => org_sd_probe # "NULL"
            /\ fr[s].pc = "check_capacity" => max_dom_size_mib \in DomSizes

\* both bus threads have taken a SATA disk within the threshold through
\* sd_probe_shim(), the two calls overlapping, and both are at their return
BothProbed ==
    \A t \in BusThreads :
        /\ fr[t].fn = "sd_probe_shim"
        /\ fr[t].pc = "return"
        /\ fr[t].probed
        /\ InRange(fr[t])

Rewritten(d) ==
    vendor[d] = CONFIG_SYNO_SATA_DOM_VENDOR /\ model[d] = CONFIG_SYNO_SATA_DOM_MODEL

\* C17 -- two SATA disks within the threshold probed by two bus threads at the
\* same time: whenever both end up with the shim's vendor and model the "already
\* shimmed" warning was logged by one of the calls; each disk ends with its
\* INQUIRY pair or the shim's pair, never a mix; device_mapped is true at the end.
C17_ConcurrentDoubleMatch ==
    BothProbed =>
        /\ (\A t \in BusThreads : Rewritten(fr[t].dev)) => \E t \in BusThreads : fr[t].warned
        /\ \A t \in BusThreads :
              \/ Rewritten(fr[t].dev)
              \/ vendor[fr[t].dev] = INQUIRY_VENDOR /\ model[fr[t].dev] = INQUIRY_MODEL
        /\ device_mapped

\* C18 -- every pre-read returns after at most SCSI_CAP_MAX_RETRIES commands,
\* whatever the drive answers attempt by attempt (no sense, busy, other sense,
\* negative status): a retry without delay uses up an attempt like one with
\* delay, there is at most one delay per command, and when all attempts fail
\* without a hard refusal the pre-read returns -EIO after exactly that many.
C18_BoundedAttempts ==
    qry.pc = "ret" =>
        /\ Len(qry.res.cmds) <= SCSI_CAP_MAX_RETRIES
        /\ qry.res.delays <= Len(qry.res.cmds)
        /\ ~qry.alloc_ok => (qry.res.cmds = <<>> /\ qry.res.ret = -EFAULT)
        /\ (/\ qry.alloc_ok
            /\ \A i \in 1..SCSI_CAP_MAX_RETRIES :
                  qry.script[i] \notin RefusalResponses \cup {RespOk}) =>
                /\ qry.res.ret = -EIO
                /\ Len(qry.res.cmds) = SCSI_CAP_MAX_RETRIES
                /\ qry.res.delays =
                      Cardinality({i \in 1..SCSI_CAP_MAX_RETRIES : qry.script[i] = RespBusy})
        /\ qry.res.ret = -EIO => Len(qry.res.cmds) = SCSI_CAP_MAX_RETRIES

\* C18 witness: no sense, then busy, then a negative status: three commands,
\* one delay, -EIO
C18_Witness ==
    /\ qry.pc = "ret"
    /\ qry.alloc_ok
    /\ qry.script[1] = RespNoSense
    /\ qry.script[2] = RespBusy
    /\ qry.script[3] = RespNeg
    /\ qry.res.ret = -EIO
    /\ Len(qry.res.cmds) = 3
    /\ qry.res.delays = 1

\* C19 -- every device the scan of the existing devices removes and rescans is
\* on the bus again when register returns, was taken through sd_probe_shim(), and
\* has the shim's vendor and model with device_mapped true, also when the
\* pre-read of the re-probe fails or meets busy answers.
C19_RescanRewrites ==
    InstallDone =>
        \A d \in scan_log.removed :
            /\ d \in onbus
            /\ d \in scan_log.reprobed
            /\ Rewritten(d)
            /\ device_mapped

\* (lba + 1) * sector_size / 1048576 without any loss: the sum in nine bytes,
\* the product in thirteen
ExactMiB(buffer) ==
    u_div_mib(u_mul(u_add1(get_unaligned_be64(buffer, 1) \o <<0>>),
                    get_unaligned_be32(buffer, 9), 13))

\* C20 -- after a successful command the pre-read returns the full mebibytes of
\* the exact product (lba + 1) * sector_size, for every 64-bit lba and every
\* 32-bit sector_size in the drive's answer (lba = 2^64 - 1 included), and the
\* value returned is not negative.
C20_ExactMebibytes ==
    qry.pc = "size_ret" =>
        /\ qry.size_mb \o <<0, 0, 0, 0, 0>> = ExactMiB(qry.buffer)
        /\ qry.size_mb[8] < 128

\* the buffers a finished pre-read has allocated and not released
Outstanding(q) == IF q.alloc_ok /\ ~q.res.freed THEN 1 ELSE 0

\* C21 -- the buffer kmalloc'ed at the start of a pre-read is kfree'd on every
\* return path (capacity returned, hard refusal, retries exhausted): when the
\* pre-read has returned, no buffer of it is left allocated.
C21_BufferFreed ==
    qry.pc = "ret" => Outstanding(qry) = 0

====
